---------------------------- MODULE Spec2Model ----------------------------
(***************************************************************************)
(* Model of services.py: the interactive AWS Resource Explorer discovery   *)
(* tool.  A Python str is a sequence of one-character strings, a dict is a *)
(* record whose absent keys hold None, and every remote call (boto3) is an *)
(* environment choice among the responses and failures it can produce.     *)
(***************************************************************************)
EXTENDS Integers, Sequences, FiniteSets, TLC

VARIABLES
    pc,             \* position of the program (entry point and callees)
    valid_regions,  \* list_resource_explorer_indexes: valid_regions
    region,         \* the region typed / selected (None: no region)
    indexes,        \* list_resource_explorer_indexes: indexes
    service_type,   \* search_by_service: service_type
    io,             \* input() calls of the current prompt loop: prompt and raw line
    next_token,     \* whether the remote index holds a further page of the search
    pages_fetched,  \* pages the current page iterator has delivered
    page,           \* records of the current page still to be processed
    arrived,        \* history: raw records delivered to the current search, in order
    services,       \* get_all_services_using_resource_explorer: services
    resources,      \* the collectors' local list: resources
    result,         \* value returned by the last collector call
    calls,          \* history: the collector calls made so far
    stdout,         \* lines printed since the entry point last called a function
    exit_code,      \* process exit status (-1 while running)
    uncaught,       \* the exception that left a function unhandled ("" if none)
    remaining,      \* records the remote index still delivers in this run
    fcall,          \* a direct call of one helper function (fn = "" in a program run)
    ret             \* the value that call returned

vars == << pc, valid_regions, region, indexes, service_type, io, next_token,
           pages_fetched, page,
           arrived, services, resources, result, calls, stdout, exit_code,
           uncaught, remaining, fcall, ret >>

-----------------------------------------------------------------------------
(* Bounds of the model *)

MaxRegionPrompts == 2
MaxServiceInputs == 2
MaxPages == 2
MaxFetched == 2
MaxRows == 2
MaxArnLen == 122

-----------------------------------------------------------------------------
(* Python values and built-ins *)

None == << "None" >>

Truthy(v) == v # None /\ v # << >>

Or(a, b) == IF Truthy(a) THEN a ELSE b

Min(a, b) == IF a < b THEN a ELSE b

Max(a, b) == IF a > b THEN a ELSE b

\* s[:k]
SliceTo(s, k) ==
    LET n == Len(s)
        e == IF k < 0 THEN Max(n + k, 0) ELSE Min(k, n)
    IN  SubSeq(s, 1, e)

\* s[k:]
SliceFrom(s, k) ==
    LET n == Len(s)
        b == IF k < 0 THEN Max(n + k, 0) ELSE Min(k, n)
    IN  SubSeq(s, b + 1, n)

\* s.startswith(p)
StartsWith(s, p) == Len(s) >= Len(p) /\ SubSeq(s, 1, Len(p)) = p

\* s.split(c) for a one-character separator c
RECURSIVE Split(_, _)
Split(s, c) ==
    IF \A i \in 1..Len(s) : s[i] # c
    THEN << s >>
    ELSE LET i == CHOOSE j \in 1..Len(s) :
                      s[j] = c /\ \A k \in 1..(j - 1) : s[k] # c
         IN  << SubSeq(s, 1, i - 1) >> \o Split(SubSeq(s, i + 1, Len(s)), c)

\* seq[-1]
Last(seq) == seq[Len(seq)]

IsSpace(c) == c \in {" ", "\t", "\n"}

\* s.strip()
RECURSIVE LStrip(_)
LStrip(s) == IF s # << >> /\ IsSpace(Head(s)) THEN LStrip(Tail(s)) ELSE s

RECURSIVE RStrip(_)
RStrip(s) ==
    IF s # << >> /\ IsSpace(s[Len(s)]) THEN RStrip(SubSeq(s, 1, Len(s) - 1)) ELSE s

Strip(s) == RStrip(LStrip(s))

LowerChar(c) ==
    CASE c = "Y" -> "y"
      [] c = "N" -> "n"
      [] c = "E" -> "e"
      [] c = "W" -> "w"
      [] OTHER -> c

\* s.lower()
Lower(s) == [i \in 1..Len(s) |-> LowerChar(s[i])]

\* c * n
Repeat(c, n) == [i \in 1..n |-> c]

\* s.ljust(w)
Ljust(s, w) == IF Len(s) >= w THEN s ELSE s \o Repeat(" ", w - Len(s))

\* sep.join(cells)
RECURSIVE Join(_, _)
Join(cells, sep) ==
    IF cells = << >> THEN << >>
    ELSE IF Len(cells) = 1 THEN cells[1]
    ELSE cells[1] \o sep \o Join(Tail(cells), sep)

-----------------------------------------------------------------------------
(* String literals of the program, and the strings the environment supplies *)

\* arn:
S_arn_prefix == << "a", "r", "n", ":" >>

\* ...
S_dots == << ".", ".", "." >>

\*  | 
S_sep == << " ", "|", " " >>

\* Unknown
S_Unknown == << "U", "n", "k", "n", "o", "w", "n" >>

\* Service
H_Service == << "S", "e", "r", "v", "i", "c", "e" >>

\* ResourceType
H_ResourceType == << "R", "e", "s", "o", "u", "r", "c", "e", "T", "y", "p", "e" >>

\* Name
H_Name == << "N", "a", "m", "e" >>

\* Region
H_Region == << "R", "e", "g", "i", "o", "n" >>

\* ARN
H_ARN == << "A", "R", "N" >>

\* y
S_y == << "y" >>

\* *
S_star == << "*" >>

\* service:
S_service_colon == << "s", "e", "r", "v", "i", "c", "e", ":" >>

\* e1
R_e1 == << "e", "1" >>

\* w2
R_w2 == << "w", "2" >>

\* arn:aws:s3:::bk
A_s3 == << "a", "r", "n", ":", "a", "w", "s", ":", "s", "3", ":", ":", ":", "b", "k" >>

\* arn:aws:ec2:e1:1:i/ab
A_inst == << "a", "r", "n", ":", "a", "w", "s", ":", "e", "c", "2", ":", "e", "1", ":", "1", ":", "i", "/", "a", "b" >>

\* arn:aws:ec2:e1:1:i/
A_slash == << "a", "r", "n", ":", "a", "w", "s", ":", "e", "c", "2", ":", "e", "1", ":", "1", ":", "i", "/" >>

\* arn:aws:l:w2:1:f:fn
A_fn == << "a", "r", "n", ":", "a", "w", "s", ":", "l", ":", "w", "2", ":", "1", ":", "f", ":", "f", "n" >>

\* ab
A_plain == << "a", "b" >>

\* a/b
A_path == << "a", "/", "b" >>

\* arn:x:y:e1
A_four == << "a", "r", "n", ":", "x", ":", "y", ":", "e", "1" >>

\* xrn:a:b:e1:c:d
A_notarn == << "x", "r", "n", ":", "a", ":", "b", ":", "e", "1", ":", "c", ":", "d" >>

\* arn:a:b:w2:c:
A_colon == << "a", "r", "n", ":", "a", ":", "b", ":", "w", "2", ":", "c", ":" >>

\* ec2:i
T_ec2i == << "e", "c", "2", ":", "i" >>

\* ec2:v
T_ec2v == << "e", "c", "2", ":", "v" >>

\* s3:b
T_s3 == << "s", "3", ":", "b" >>

\* lam
T_lam == << "l", "a", "m" >>

\* rn
V_rn == << "r", "n" >>

\* ti
V_t == << "t", "i" >>

\* nm
V_n == << "n", "m" >>

\* dn
V_d == << "d", "n" >>

\* pn
V_pn == << "p", "n" >>

\* pt
V_pt == << "p", "t" >>

\* ec2
V_ec2 == << "e", "c", "2" >>

\* s3
V_s3 == << "s", "3" >>

\* {"name":"pn"}
J_name == << "{", "\"", "n", "a", "m", "e", "\"", ":", "\"", "p", "n", "\"", "}" >>

\* {"Title":"pt"}
J_title == << "{", "\"", "T", "i", "t", "l", "e", "\"", ":", "\"", "p", "t", "\"", "}" >>

\* {}
J_empty == << "{", "}" >>

\* null
J_null == << "n", "u", "l", "l" >>

\* {bad
J_bad == << "{", "b", "a", "d" >>

-----------------------------------------------------------------------------
(* Resource records *)

\* keys looked up in a decoded properties object, plus any other key
DKeys == {"name", "Name", "title", "Title", "resourceName", "other"}

NoKeys == [k \in DKeys |-> None]

\* A value of 'Properties' / 'Attributes' / 'Resource': absent, a str, a dict,
\* or a (non-empty) list as the Resource Explorer API returns it.
NoProps == [t |-> "absent", s |-> << >>, d |-> NoKeys]

StrProps(text) == [t |-> "str", s |-> text, d |-> NoKeys]

DictProps(dict) == [t |-> "dict", s |-> << >>, d |-> dict]

ListProps == [t |-> "list", s |-> << >>, d |-> NoKeys]

DictTruthy(dict) == \E k \in DKeys : dict[k] # None

PropsTruthy(p) ==
    CASE p.t = "absent" -> FALSE
      [] p.t = "str"    -> p.s # << >>
      [] p.t = "dict"   -> DictTruthy(p.d)
      [] p.t = "list"   -> TRUE

\* a dict with none of the keys the program reads
EmptyRec ==
    [ResourceName |-> None, Title |-> None, Name |-> None, DisplayName |-> None,
     Properties |-> NoProps, Attributes |-> NoProps, Resource |-> NoProps,
     Arn |-> None, ARN |-> None, Region |-> None, ResourceType |-> None,
     Service |-> None]

\* d.get(key, default)
Get(d, key, default) == IF d[key] = None THEN default ELSE d[key]

\* json.loads on the texts the environment supplies: an object decodes to a
\* dict, null to None (no keys), anything else raises.
JsonLoads(text) ==
    CASE text = J_name  -> [raised |-> FALSE, d |-> [NoKeys EXCEPT !["name"] = V_pn]]
      [] text = J_title -> [raised |-> FALSE, d |-> [NoKeys EXCEPT !["Title"] = V_pt]]
      [] text = J_empty -> [raised |-> FALSE, d |-> NoKeys]
      [] text = J_null  -> [raised |-> FALSE, d |-> NoKeys]
      [] OTHER          -> [raised |-> TRUE, d |-> NoKeys]

-----------------------------------------------------------------------------
(* _get_region_from_arn *)

\* mutant: the segment before the region (parts[2]) is returned
GetRegionFromArn_ServiceSegment(arn) ==
    IF ~Truthy(arn) \/ ~StartsWith(arn, S_arn_prefix)
    THEN << >>
    ELSE LET parts == Split(arn, ":")
         IN  IF Len(parts) > 4 THEN parts[3] ELSE << >>

GetRegionFromArn(arn) ==
    IF ~Truthy(arn) \/ ~StartsWith(arn, S_arn_prefix)
    THEN << >>
    ELSE LET parts == Split(arn, ":")
         IN  IF Len(parts) > 4 THEN parts[4] ELSE << >>

-----------------------------------------------------------------------------
(* _get_resource_name *)

\* mutant: Name is tried before Title
DirectKeys_NameFirst == << "ResourceName", "Name", "Title", "DisplayName" >>

DirectKeys == << "ResourceName", "Title", "Name", "DisplayName" >>

PropKeys == << "name", "Name", "title", "Title", "resourceName" >>

\* the first key of keys whose value in d is truthy (0 if none)
FirstTruthy(d, keys) ==
    IF \E i \in 1..Len(keys) : Truthy(d[keys[i]])
    THEN CHOOSE i \in 1..Len(keys) :
             Truthy(d[keys[i]]) /\ \A j \in 1..(i - 1) : ~Truthy(d[keys[j]])
    ELSE 0

\* props = resource.get('Properties') or resource.get('Attributes') or resource.get('Resource')
PropsOf(resource) ==
    IF PropsTruthy(resource.Properties) THEN resource.Properties
    ELSE IF PropsTruthy(resource.Attributes) THEN resource.Attributes
    ELSE resource.Resource

\* pdata: the decoded dict, NoKeys where the code leaves pdata None
PData(props) ==
    CASE props.t = "str"  -> JsonLoads(props.s).d
      [] props.t = "dict" -> props.d
      [] OTHER            -> NoKeys

\* mutant: an empty part after the last '/' is returned as the name
ArnFallback_EmptySlashPart(resource) ==
    LET arn == Or(resource.Arn, resource.ARN)
    IN  IF Truthy(arn)
        THEN LET seg == Last(Split(arn, "/"))
             IN  IF seg # arn THEN seg ELSE Last(Split(arn, ":"))
        ELSE << >>

ArnFallback(resource) ==
    LET arn == Or(resource.Arn, resource.ARN)
    IN  IF Truthy(arn)
        THEN LET seg == Last(Split(arn, "/"))
             IN  IF Truthy(seg) /\ seg # arn THEN seg ELSE Last(Split(arn, ":"))
        ELSE << >>

GetResourceName(resource) ==
    IF resource = EmptyRec THEN << >>
    ELSE LET i == FirstTruthy(resource, DirectKeys)
         IN  IF i # 0 THEN resource[DirectKeys[i]]
             ELSE LET pdata == PData(PropsOf(resource))
                      k == FirstTruthy(pdata, PropKeys)
                  IN  IF DictTruthy(pdata) /\ k # 0 THEN pdata[PropKeys[k]]
                      ELSE ArnFallback(resource)

-----------------------------------------------------------------------------
(* _shorten *)

\* mutant: keep does not leave room for the dots
Shorten_KeepHalf(text, max_len) ==
    IF ~Truthy(text) THEN << >>
    ELSE IF Len(text) <= max_len THEN text
    ELSE LET keep == max_len \div 2
         IN  SliceTo(text, keep) \o S_dots \o SliceFrom(text, 0 - keep)

Shorten(text, max_len) ==
    IF ~Truthy(text) THEN << >>
    ELSE IF Len(text) <= max_len THEN text
    ELSE LET keep == (max_len - 3) \div 2
         IN  SliceTo(text, keep) \o S_dots \o SliceFrom(text, 0 - keep)

-----------------------------------------------------------------------------
(* _print_resources_table *)

\* A printed line: the message (k), its str argument (s) and its int arguments
\* (n, m).  k = "text" is a line given character by character.
Line(k, s, n) == [k |-> k, s |-> s, n |-> n, m |-> 0]

NoTitle == Line("", << >>, 0)

ArnCap == 120

headers == << H_Service, H_ResourceType, H_Name, H_Region, H_ARN >>

\* the row built from one resource dict
RowOf(r) ==
    << Or(r.Service, << >>),
       Or(r.ResourceType, << >>),
       Or(r.Name, GetResourceName(r)),
       Or(r.Region, << >>),
       Or(r.ARN, Or(r.Arn, << >>)) >>

RowsOf(rs) == [j \in 1..Len(rs) |-> RowOf(rs[j])]

\* max(len(h), len of every cell of column i)
RECURSIVE MaxCell(_, _, _)
MaxCell(rows, i, maxw) ==
    IF rows = << >> THEN maxw
    ELSE MaxCell(Tail(rows), i, Max(maxw, Len(Head(rows)[i])))

ColWidth(rows, i) ==
    LET maxw == MaxCell(rows, i, Len(headers[i]))
    IN  IF headers[i] = H_ARN /\ maxw > ArnCap THEN ArnCap ELSE maxw

ColWidths(rows) == [i \in 1..Len(headers) |-> ColWidth(rows, i)]

HeaderLine(col_widths) ==
    Join([i \in 1..Len(headers) |-> Ljust(headers[i], col_widths[i])], S_sep)

OutCell(cell, i, col_widths) ==
    LET text == IF headers[i] = H_ARN THEN Shorten(cell, col_widths[i]) ELSE cell
    IN  Ljust(text, col_widths[i])

RowLine(row, col_widths) ==
    Join([i \in 1..Len(row) |-> OutCell(row[i], i, col_widths)], S_sep)

\* the lines _print_resources_table prints
PrintResourcesTable(rs, title) ==
    LET rows == RowsOf(rs)
        col_widths == ColWidths(rows)
        header_line == HeaderLine(col_widths)
    IN  (IF title.k # "" THEN << title >> ELSE << >>)
        \o << Line("text", header_line, 0),
              Line("text", Repeat("-", Len(header_line)), 0) >>
        \o [j \in 1..Len(rows) |-> Line("text", RowLine(rows[j], col_widths), 0)]
        \o << Line("Total resources", << >>, Len(rows)) >>

-----------------------------------------------------------------------------
(* What the environment supplies to a run of the program *)

\* ec2.describe_regions(): the region names
RegionList == << R_e1, R_w2 >>

\* lines typed at the region prompt
RegionInputs ==
    { << >>, << " " >>, R_e1, << " ", "e", "1", " " >>, R_w2, << "x", "x" >>,
      << "E", "1" >> }

\* lines typed at the retry prompt
RetryInputs == { << "y" >>, << "Y" >>, << " ", "y" >>, << "n" >>, << >> }

\* lines typed at the service prompt
ServiceInputs == { << >>, << " " >>, << " ", "s", "3" >> }

\* an item of list_indexes()['Indexes']
IndexItem(r, t, a) == [Region |-> r, Type |-> t, Arn |-> a]

T_AGG == << "A", "G", "G" >>

\* the 'Indexes' lists of a list_indexes() response (<< >>: none, or no such key)
IndexResponses ==
    { << >>, << IndexItem(R_w2, T_AGG, A_four), IndexItem(None, None, None) >> }

\* raw records of a search page
Raw1 == [EmptyRec EXCEPT !.Arn = A_s3, !.ResourceType = T_s3, !.Service = V_s3]

Raw2 == [EmptyRec EXCEPT !.Arn = A_fn, !.ResourceType = T_lam, !.Title = V_t]

Raw3 == [EmptyRec EXCEPT !.Region = R_w2, !.Arn = A_slash, !.Service = V_ec2]

Raw4 == [EmptyRec EXCEPT !.Arn = A_inst, !.ResourceType = T_ec2v,
                         !.Properties = StrProps(J_name)]

RawMain == { Raw1, Raw2, Raw3, Raw4 }

\* the 'Resources' lists a page can carry (<< >>: empty, or no such key)
PageSet(n) == UNION { [1..k -> RawMain] : k \in 0..n }

-----------------------------------------------------------------------------
(* State of a run *)

InSeq(x, seq) == \E i \in 1..Len(seq) : seq[i] = x

EmptyMap == [x \in {} |-> 0]

NoResult ==
    [fn |-> "", present |-> FALSE, services |-> EmptyMap, total_services |-> 0,
     total_resources |-> 0, resources |-> << >>]

NoCall == [fn |-> "", res |-> EmptyRec, text |-> << >>, max_len |-> 0,
           rows |-> << >>, title |-> NoTitle]

NoRet == [s |-> << >>, out |-> << >>]

Init ==
    /\ pc = "start"
    /\ valid_regions = << >>
    /\ region = None
    /\ indexes = << >>
    /\ service_type = << >>
    /\ io = << >>
    /\ next_token = FALSE
    /\ pages_fetched = 0
    /\ page = << >>
    /\ arrived = << >>
    /\ services = EmptyMap
    /\ resources = << >>
    /\ result = NoResult
    /\ calls = << >>
    /\ stdout = << >>
    /\ exit_code = -1
    /\ uncaught = ""
    /\ remaining = MaxFetched
    /\ fcall = NoCall
    /\ ret = NoRet

Prompts(q) == Len(SelectSeq(io, LAMBDA e : e.q = q))

Input(q, raw) == [q |-> q, raw |-> raw]

\* an exception leaves the program: the interpreter prints the traceback and
\* exits with status 1
Crash(exc) ==
    /\ uncaught' = exc
    /\ exit_code' = 1
    /\ pc' = "crashed"

-----------------------------------------------------------------------------
(* list_resource_explorer_indexes *)

\* lines 128-136: the region list
DescribeRegions ==
    /\ pc = "start"
    /\ \E ok \in BOOLEAN :
           IF ok
           THEN /\ valid_regions' = RegionList
                /\ stdout' = stdout \o << Line("Checking for indexes", << >>, 0) >>
                /\ pc' = "prompt_region"
           ELSE /\ valid_regions' = valid_regions
                /\ stdout' = stdout \o << Line("Checking for indexes", << >>, 0),
                                          Line("Unable to retrieve AWS regions", << >>, 0) >>
                /\ pc' = "main_check"
    /\ UNCHANGED << region, indexes, service_type, io, next_token, pages_fetched,
                    page, arrived, services, resources, result, calls, exit_code,
                    uncaught, remaining, fcall, ret >>

\* lines 138-149: one pass of the prompt loop up to the retry question
PromptRegion ==
    /\ pc = "prompt_region"
    /\ Prompts("region") < MaxRegionPrompts
    /\ \E raw \in RegionInputs :
           LET r == Strip(raw)
           IN  /\ io' = Append(io, Input("region", raw))
               /\ region' = r
               /\ IF ~Truthy(r)
                  THEN /\ stdout' = Append(stdout, Line("Region input cannot be empty", << >>, 0))
                       /\ pc' = "prompt_region"
                  ELSE IF ~InSeq(r, valid_regions)
                  THEN /\ stdout' = Append(stdout, Line("is not a valid region", r, 0))
                       /\ pc' = "ask_retry"
                  ELSE /\ stdout' = stdout
                       /\ pc' = "list_indexes"
    /\ UNCHANGED << valid_regions, indexes, service_type, next_token, pages_fetched,
                    page, arrived, services, resources, result, calls, exit_code,
                    uncaught, remaining, fcall, ret >>

\* mutant: only the answer 'n' ends the loop
Declines_OnlyOnN(retry) == retry = << "n" >>

\* retry != 'y'
Declines(retry) == retry # S_y

\* lines 145-148: the retry question
AskRetry ==
    /\ pc = "ask_retry"
    /\ \E raw \in RetryInputs :
           LET retry == Lower(Strip(raw))
           IN  /\ io' = Append(io, Input("retry", raw))
               /\ IF Declines(retry)
                  THEN /\ region' = None
                       /\ indexes' = << >>
                       /\ pc' = "main_check"
                  ELSE /\ UNCHANGED << region, indexes >>
                       /\ pc' = "prompt_region"
    /\ UNCHANGED << valid_regions, service_type, next_token, pages_fetched, page,
                    arrived, services, resources, result, calls, stdout, exit_code,
                    uncaught, remaining, fcall, ret >>

IndexEntry(index, rgn) ==
    [Region |-> Get(index, "Region", rgn), Type |-> Get(index, "Type", << >>),
     ARN |-> Get(index, "Arn", << >>)]

\* lines 151-171: the index lookup.  When boto3.client raises, client is still
\* unbound where the first except clause evaluates client.exceptions, and the
\* UnboundLocalError raised there leaves the function.
ListIndexes ==
    /\ pc = "list_indexes"
    /\ \E outcome \in {"client raises", "ResourceNotFoundException", "Exception",
                       "response"} :
           CASE outcome = "client raises" ->
                    /\ Crash("UnboundLocalError")
                    /\ UNCHANGED << indexes, stdout >>
             [] outcome = "ResourceNotFoundException" ->
                    /\ indexes' = << >>
                    /\ stdout' = Append(stdout, Line("Resource Explorer not configured in this region", << >>, 0))
                    /\ pc' = "main_check"
                    /\ UNCHANGED << uncaught, exit_code >>
             [] outcome = "Exception" ->
                    /\ indexes' = << >>
                    /\ stdout' = Append(stdout, Line("Error checking indexes", region, 0))
                    /\ pc' = "main_check"
                    /\ UNCHANGED << uncaught, exit_code >>
             [] outcome = "response" ->
                    \E resp \in IndexResponses :
                        /\ indexes' = [i \in 1..Len(resp) |-> IndexEntry(resp[i], region)]
                        /\ stdout' = stdout \o
                               (IF resp # << >>
                                THEN [i \in 1..Len(resp) |->
                                         Line("Found index", Get(resp[i], "Type", << >>), 0)]
                                ELSE << Line("No Resource Explorer index found in region", region, 0) >>)
                        /\ pc' = "main_check"
                        /\ UNCHANGED << uncaught, exit_code >>
    /\ UNCHANGED << valid_regions, region, service_type, io, next_token,
                    pages_fetched, page, arrived, services, resources, result,
                    calls, remaining, fcall, ret >>

-----------------------------------------------------------------------------
(* The collectors' loop body *)

\* resource.get('Region') or _get_region_from_arn(resource.get('Arn', ''))
ResourceRegion(resource) ==
    Or(resource.Region, GetRegionFromArn(Get(resource, "Arn", << >>)))

\* the record both collectors append
Collected(resource, resource_type) ==
    [EmptyRec EXCEPT !.ResourceType = resource_type,
                     !.ARN = Get(resource, "Arn", << >>),
                     !.Region = ResourceRegion(resource),
                     !.Service = Get(resource, "Service", << >>),
                     !.Name = GetResourceName(resource)]

\* resource_type.split(':')[0] if ':' in resource_type else resource_type
ServiceOf(resource_type) ==
    IF \E i \in 1..Len(resource_type) : resource_type[i] = ":"
    THEN Split(resource_type, ":")[1]
    ELSE resource_type

\* mutant: the count is set to 1 instead of incremented
Increment_SetOne(map, key) ==
    [k \in DOMAIN map \cup {key} |-> IF k = key THEN 1 ELSE map[k]]

\* services[service] += 1 on a defaultdict(int)
Increment(map, key) ==
    IF key \in DOMAIN map
    THEN [map EXCEPT ![key] = @ + 1]
    ELSE [k \in DOMAIN map \cup {key} |-> IF k = key THEN 1 ELSE map[k]]

\* mutant: the record is put in front
AppendTo_Front(list, item) == << item >> \o list

\* resources.append(item)
AppendTo(list, item) == Append(list, item)

\* whether the loop body keeps the record (lines 191-192, 252-253)
Keeps(resource, rgn) == ResourceRegion(resource) = rgn

\* code points of the characters of a service name
Ord(c) ==
    CASE c = "2" -> 50 [] c = "3" -> 51 [] c = "U" -> 85 [] c = "a" -> 97
      [] c = "b" -> 98 [] c = "c" -> 99 [] c = "e" -> 101 [] c = "i" -> 105
      [] c = "k" -> 107 [] c = "l" -> 108 [] c = "m" -> 109 [] c = "n" -> 110
      [] c = "o" -> 111 [] c = "s" -> 115 [] c = "v" -> 118 [] c = "w" -> 119

\* a < b for two str
RECURSIVE StrLess(_, _)
StrLess(a, b) ==
    IF b = << >> THEN FALSE
    ELSE IF a = << >> THEN TRUE
    ELSE IF Head(a) # Head(b) THEN Ord(Head(a)) < Ord(Head(b))
    ELSE StrLess(Tail(a), Tail(b))

\* sorted(keys)
RECURSIVE Sorted(_)
Sorted(keys) ==
    IF keys = {} THEN << >>
    ELSE LET m == CHOOSE k \in keys : \A o \in keys \ {k} : StrLess(k, o)
         IN  << m >> \o Sorted(keys \ {m})

CallEntry(fn, query) == [fn |-> fn, query |-> query, caught |-> ""]

Caught(exc) == [calls EXCEPT ![Len(calls)].caught = exc]

\* the next page of the iterator: a response with its records and whether a
\* NextToken follows it
Deliver(resp, more, to_record, to_fetch) ==
    /\ page' = resp
    /\ arrived' = arrived \o resp
    /\ remaining' = remaining - Len(resp)
    /\ pages_fetched' = pages_fetched + 1
    /\ next_token' = more
    /\ pc' = IF resp # << >> THEN to_record ELSE to_fetch

Responses == PageSet(remaining)

MoreAllowed == IF pages_fetched + 1 < MaxPages THEN BOOLEAN ELSE {FALSE}

-----------------------------------------------------------------------------
(* get_all_services_using_resource_explorer *)

\* lines 222-228: what the two except clauses print
GA_ErrorLines(exc) ==
    IF exc = "ResourceNotFoundException"
    THEN << Line("Error: Resource Explorer is not set up in this region.", << >>, 0),
            Line("Please create an index using the AWS Console or CLI first.", << >>, 0) >>
    ELSE << Line("Error", << >>, 0) >>

\* lines 175-185: the client (outside the try), the paginator, paginate('*')
GA_Begin ==
    /\ pc = "get_all"
    /\ io' = << >>
    /\ services' = EmptyMap
    /\ resources' = << >>
    /\ arrived' = << >>
    /\ page' = << >>
    /\ pages_fetched' = 0
    /\ \E outcome \in {"client raises", "ResourceNotFoundException", "Exception", "ok"} :
           CASE outcome = "client raises" ->
                    /\ Crash("Exception")
                    /\ stdout' = << >>
                    /\ UNCHANGED << calls, result, next_token >>
             [] outcome = "ok" ->
                    /\ calls' = Append(calls, CallEntry("get_all", S_star))
                    /\ stdout' = << Line("Searching for resources in region", region, 0) >>
                    /\ next_token' = TRUE
                    /\ pc' = "ga_fetch"
                    /\ UNCHANGED << result, uncaught, exit_code >>
             [] OTHER ->
                    /\ calls' = Append(calls, [CallEntry("get_all", << >>) EXCEPT !.caught = outcome])
                    /\ stdout' = GA_ErrorLines(outcome)
                    /\ result' = [NoResult EXCEPT !.fn = "get_all"]
                    /\ pc' = "main_summary"
                    /\ UNCHANGED << next_token, uncaught, exit_code >>
    /\ UNCHANGED << valid_regions, region, indexes, service_type, remaining, fcall, ret >>

\* line 187: the page iterator yields the next page, ends, or raises
GA_Fetch ==
    /\ pc = "ga_fetch"
    /\ IF ~next_token
       THEN /\ pc' = "ga_finish"
            /\ UNCHANGED << page, arrived, remaining, pages_fetched, next_token,
                            calls, result, services, resources, stdout >>
       ELSE \E outcome \in {"ResourceNotFoundException", "Exception", "page"} :
                IF outcome = "page"
                THEN /\ \E resp \in Responses, more \in MoreAllowed :
                            Deliver(resp, more, "ga_record", "ga_fetch")
                     /\ UNCHANGED << calls, result, services, resources, stdout >>
                ELSE /\ calls' = Caught(outcome)
                     /\ result' = [NoResult EXCEPT !.fn = "get_all"]
                     /\ stdout' = stdout \o GA_ErrorLines(outcome)
                     /\ services' = EmptyMap
                     /\ resources' = << >>
                     /\ pc' = "main_summary"
                     /\ UNCHANGED << page, arrived, remaining, pages_fetched, next_token >>
    /\ UNCHANGED << valid_regions, region, indexes, service_type, io, exit_code,
                    uncaught, fcall, ret >>

\* lines 188-204: the loop body on the next record of the page
GA_Record ==
    /\ pc = "ga_record"
    /\ page # << >>
    /\ LET resource == Head(page)
           resource_type == Get(resource, "ResourceType", S_Unknown)
       IN  IF ~Keeps(resource, region)
           THEN UNCHANGED << services, resources >>
           ELSE /\ services' = Increment(services, ServiceOf(resource_type))
                /\ resources' = AppendTo(resources, Collected(resource, resource_type))
    /\ page' = Tail(page)
    /\ pc' = IF Tail(page) = << >> THEN "ga_fetch" ELSE "ga_record"
    /\ UNCHANGED << valid_regions, region, indexes, service_type, io, next_token,
                    pages_fetched, arrived, result, calls, stdout, exit_code,
                    uncaught, remaining, fcall, ret >>

ServiceLines(map) ==
    LET keys == Sorted(DOMAIN map)
    IN  [i \in 1..Len(keys) |-> Line("service count", keys[i], map[keys[i]])]

\* lines 206-220: the summary, the table, the returned dict
GA_Finish ==
    /\ pc = "ga_finish"
    /\ stdout' = stdout
           \o << Line("Total unique services found", << >>, Cardinality(DOMAIN services)),
                 Line("Services and resource counts:", << >>, 0),
                 Line("text", Repeat("-", 50), 0) >>
           \o ServiceLines(services)
           \o PrintResourcesTable(resources, Line("Resources in region", region, 0))
    /\ result' = [fn |-> "get_all", present |-> TRUE, services |-> services,
                  total_services |-> Cardinality(DOMAIN services),
                  total_resources |-> Len(resources), resources |-> resources]
    /\ services' = EmptyMap
    /\ resources' = << >>
    /\ pc' = "main_summary"
    /\ UNCHANGED << valid_regions, region, indexes, service_type, io, next_token,
                    pages_fetched, page, arrived, calls, exit_code, uncaught,
                    remaining, fcall, ret >>

-----------------------------------------------------------------------------
(* search_by_service *)

\* lines 240-248: the client (outside the try), the paginator, paginate(service:...)
SB_Begin ==
    /\ pc = "search"
    /\ resources' = << >>
    /\ arrived' = << >>
    /\ page' = << >>
    /\ pages_fetched' = 0
    /\ \E outcome \in {"client raises", "Exception", "ok"} :
           CASE outcome = "client raises" ->
                    /\ Crash("Exception")
                    /\ stdout' = << >>
                    /\ UNCHANGED << calls, result, next_token >>
             [] outcome = "ok" ->
                    /\ calls' = Append(calls, CallEntry("search", S_service_colon \o service_type))
                    /\ stdout' = << >>
                    /\ next_token' = TRUE
                    /\ pc' = "sb_fetch"
                    /\ UNCHANGED << result, uncaught, exit_code >>
             [] outcome = "Exception" ->
                    /\ calls' = Append(calls, [CallEntry("search", << >>) EXCEPT !.caught = outcome])
                    /\ stdout' = << Line("Error searching for", service_type, 0) >>
                    /\ result' = [NoResult EXCEPT !.fn = "search", !.present = TRUE]
                    /\ pc' = "prompt_service"
                    /\ UNCHANGED << next_token, uncaught, exit_code >>
    /\ UNCHANGED << valid_regions, region, indexes, service_type, io, services,
                    remaining, fcall, ret >>

\* line 249: the page iterator yields the next page, ends, or raises
SB_Fetch ==
    /\ pc = "sb_fetch"
    /\ IF ~next_token
       THEN /\ pc' = "sb_finish"
            /\ UNCHANGED << page, arrived, remaining, pages_fetched, next_token,
                            calls, result, resources, stdout >>
       ELSE \E outcome \in {"Exception", "page"} :
                IF outcome = "page"
                THEN /\ \E resp \in Responses, more \in MoreAllowed :
                            Deliver(resp, more, "sb_record", "sb_fetch")
                     /\ UNCHANGED << calls, result, resources, stdout >>
                ELSE /\ calls' = Caught(outcome)
                     /\ result' = [NoResult EXCEPT !.fn = "search", !.present = TRUE]
                     /\ stdout' = Append(stdout, Line("Error searching for", service_type, 0))
                     /\ resources' = << >>
                     /\ pc' = "prompt_service"
                     /\ UNCHANGED << page, arrived, remaining, pages_fetched, next_token >>
    /\ UNCHANGED << valid_regions, region, indexes, service_type, io, services,
                    exit_code, uncaught, fcall, ret >>

\* lines 250-260: the loop body on the next record of the page
SB_Record ==
    /\ pc = "sb_record"
    /\ page # << >>
    /\ LET resource == Head(page)
       IN  IF ~Keeps(resource, region)
           THEN UNCHANGED resources
           ELSE resources' = AppendTo(resources,
                                      Collected(resource, Get(resource, "ResourceType", << >>)))
    /\ page' = Tail(page)
    /\ pc' = IF Tail(page) = << >> THEN "sb_fetch" ELSE "sb_record"
    /\ UNCHANGED << valid_regions, region, indexes, service_type, io, next_token,
                    pages_fetched, arrived, services, result, calls, stdout,
                    exit_code, uncaught, remaining, fcall, ret >>

\* lines 262-267: the count line, the table, the returned list
SB_Finish ==
    /\ pc = "sb_finish"
    /\ stdout' = stdout
           \o << Line("Found resources for service", service_type, Len(resources)) >>
           \o PrintResourcesTable(resources, Line("Resources for service", service_type, 0))
    /\ result' = [NoResult EXCEPT !.fn = "search", !.present = TRUE,
                                  !.resources = resources]
    /\ resources' = << >>
    /\ pc' = "prompt_service"
    /\ UNCHANGED << valid_regions, region, indexes, service_type, io, next_token,
                    pages_fetched, page, arrived, services, calls, exit_code,
                    uncaught, remaining, fcall, ret >>

-----------------------------------------------------------------------------
(* __main__ *)

\* not region
NoRegion == ~Truthy(region)

\* mutant: an empty index list is not checked
NoIndexes_Never == FALSE

\* not indexes
NoIndexes == indexes = << >>

\* mutant: a dict with an empty resources list counts as false
ResultTruthy_NonEmpty(r) == r.present /\ r.resources # << >>

\* the truth value of what get_all_services_using_resource_explorer returned:
\* None is false, the dict (four keys) is true
ResultTruthy(r) == r.present

\* lines 281-302: the checks on what list_resource_explorer_indexes returned
MainCheck ==
    /\ pc = "main_check"
    /\ IF NoRegion
       THEN /\ stdout' = Append(stdout, Line("No region selected or unable to determine region.", << >>, 0))
            /\ exit_code' = 1
            /\ pc' = "done"
       ELSE IF NoIndexes
       THEN /\ stdout' = Append(stdout, Line("No Resource Explorer indexes found in region", region, 0))
            /\ exit_code' = 1
            /\ pc' = "done"
       ELSE /\ stdout' = stdout \o << Line("Found Resource Explorer index(es) in region", region, Len(indexes)),
                                      Line("Using index in region", region, 0) >>
            /\ exit_code' = exit_code
            /\ pc' = "get_all"
    /\ UNCHANGED << valid_regions, region, indexes, service_type, io, next_token,
                    pages_fetched, page, arrived, services, resources, result,
                    calls, uncaught, remaining, fcall, ret >>

\* lines 307-310: the grand total, printed when the result is truthy
MainSummary ==
    /\ pc = "main_summary"
    /\ stdout' = IF ResultTruthy(result)
                 THEN Append(stdout, [Line("Summary", << >>, result.total_resources)
                                         EXCEPT !.m = result.total_services])
                 ELSE stdout
    /\ pc' = "prompt_service"
    /\ UNCHANGED << valid_regions, region, indexes, service_type, io, next_token,
                    pages_fetched, page, arrived, services, resources, result,
                    calls, exit_code, uncaught, remaining, fcall, ret >>

\* lines 313-317: one pass of the service loop
PromptService ==
    /\ pc = "prompt_service"
    /\ Prompts("service") < MaxServiceInputs
    /\ \E raw \in ServiceInputs :
           LET svc == Strip(raw)
           IN  /\ io' = Append(io, Input("service", raw))
               /\ IF ~Truthy(svc)
                  THEN /\ exit_code' = 0
                       /\ pc' = "done"
                       /\ UNCHANGED service_type
                  ELSE /\ service_type' = svc
                       /\ pc' = "search"
                       /\ UNCHANGED exit_code
    /\ UNCHANGED << valid_regions, region, indexes, next_token, pages_fetched, page,
                    arrived, services, resources, result, calls, stdout, uncaught,
                    remaining, fcall, ret >>

Next ==
    \/ DescribeRegions
    \/ PromptRegion
    \/ AskRetry
    \/ ListIndexes
    \/ MainCheck
    \/ GA_Begin
    \/ GA_Fetch
    \/ GA_Record
    \/ GA_Finish
    \/ MainSummary
    \/ PromptService
    \/ SB_Begin
    \/ SB_Fetch
    \/ SB_Record
    \/ SB_Finish

Spec == Init /\ [][Next]_vars

-----------------------------------------------------------------------------
(* Direct calls of the helper functions, on arguments drawn from bounded sets *)

Alphabet == << "a", "b", "c", "d", "e", "f", "g" >>

\* a str of length n whose characters vary with their position
MakeText(n) == [i \in 1..n |-> Alphabet[(i % 7) + 1]]

ArnTexts ==
    { A_s3, A_inst, A_slash, A_fn, A_plain, A_path, A_four, A_notarn, A_colon }

ArnLens == {0, 5, 200} \cup (118..MaxArnLen)

NameArgs ==
    { [EmptyRec EXCEPT !.ResourceName = rn, !.Title = ti, !.Name = nm,
                       !.DisplayName = dn, !.Properties = pr, !.Attributes = at,
                       !.Arn = arn, !.ARN = arn2] :
        rn \in {None, << >>, V_rn}, ti \in {None, << >>, V_t}, nm \in {None, V_n},
        dn \in {None, V_d},
        pr \in {NoProps, ListProps, StrProps(J_name), StrProps(J_bad), StrProps(J_empty),
                DictProps([NoKeys EXCEPT !["other"] = V_d]),
                DictProps([NoKeys EXCEPT !["Name"] = << >>, !["title"] = V_pt])},
        at \in {NoProps, StrProps(J_title), StrProps(J_null)},
        arn \in ArnTexts \cup {None},
        arn2 \in {None, A_path} }

TableRecs ==
    { [EmptyRec EXCEPT !.ResourceType = T_ec2i, !.ARN = MakeText(n), !.Region = R_e1,
                       !.Service = sv, !.Name = V_n] :
        n \in ArnLens, sv \in {<< >>, V_ec2} }

FnCalls ==
    { [NoCall EXCEPT !.fn = "_get_region_from_arn", !.text = a] :
        a \in ArnTexts \cup {<< >>, None} }
    \cup { [NoCall EXCEPT !.fn = "_get_resource_name", !.res = r] : r \in NameArgs }
    \cup { [NoCall EXCEPT !.fn = "_shorten", !.text = MakeText(n), !.max_len = m] :
             n \in ArnLens \cup (0..8), m \in (0..9) \cup (118..MaxArnLen) }
    \cup { [NoCall EXCEPT !.fn = "_print_resources_table", !.rows = rs, !.title = ti] :
             rs \in UNION { [1..k -> TableRecs] : k \in 0..MaxRows },
             ti \in {NoTitle, Line("Resources in region", R_e1, 0)} }

InitFn ==
    /\ pc = "call"
    /\ fcall \in FnCalls
    /\ ret = NoRet
    /\ valid_regions = << >>
    /\ region = None
    /\ indexes = << >>
    /\ service_type = << >>
    /\ io = << >>
    /\ next_token = FALSE
    /\ pages_fetched = 0
    /\ page = << >>
    /\ arrived = << >>
    /\ services = EmptyMap
    /\ resources = << >>
    /\ result = NoResult
    /\ calls = << >>
    /\ stdout = << >>
    /\ exit_code = -1
    /\ uncaught = ""
    /\ remaining = 0

Returned ==
    /\ pc' = "returned"
    /\ UNCHANGED << valid_regions, region, indexes, service_type, io, next_token,
                    pages_fetched, page, arrived, services, resources, result,
                    calls, stdout, exit_code, uncaught, remaining, fcall >>

CallGetRegionFromArn ==
    /\ pc = "call"
    /\ fcall.fn = "_get_region_from_arn"
    /\ ret' = [NoRet EXCEPT !.s = GetRegionFromArn(fcall.text)]
    /\ Returned

CallGetResourceName ==
    /\ pc = "call"
    /\ fcall.fn = "_get_resource_name"
    /\ ret' = [NoRet EXCEPT !.s = GetResourceName(fcall.res)]
    /\ Returned

CallShorten ==
    /\ pc = "call"
    /\ fcall.fn = "_shorten"
    /\ ret' = [NoRet EXCEPT !.s = Shorten(fcall.text, fcall.max_len)]
    /\ Returned

CallPrintResourcesTable ==
    /\ pc = "call"
    /\ fcall.fn = "_print_resources_table"
    /\ ret' = [NoRet EXCEPT !.out = PrintResourcesTable(fcall.rows, fcall.title)]
    /\ Returned

NextFn ==
    \/ CallGetRegionFromArn
    \/ CallGetResourceName
    \/ CallShorten
    \/ CallPrintResourcesTable

SpecFn == InitFn /\ [][NextFn]_vars

-----------------------------------------------------------------------------
(* Properties of the helper functions (specification SpecFn) *)

HasReturned(fn) == pc = "returned" /\ fcall.fn = fn

\* the identifier _get_resource_name falls back to
Identifier(r) == Or(r.Arn, r.ARN)

NoDirectName(r) == \A i \in 1..Len(DirectKeys) : ~Truthy(r[DirectKeys[i]])

\* none of the three properties fields holds a dict or a str that decodes
NoStructuredProps(r) ==
    \A key \in {"Properties", "Attributes", "Resource"} :
        \/ r[key].t \in {"absent", "list"}
        \/ r[key].t = "str" /\ JsonLoads(r[key].s).raised

\* the part of s after its last c (all of s when c does not occur)
AfterLast(s, c) ==
    LET at == {i \in 1..Len(s) : s[i] = c}
        k == IF at = {} THEN 0 ELSE CHOOSE i \in at : \A j \in at : j <= i
    IN  SubSeq(s, k + 1, Len(s))

\* C4 as stated: a record with a non-empty Title resolves to that Title whatever
\* its other fields hold.
C4_TitleRegardlessOfOtherFields ==
    (HasReturned("_get_resource_name") /\ Truthy(fcall.res.Title))
        => ret.s = fcall.res.Title

\* C4, amended: a record with a non-empty Title and no non-empty ResourceName
\* resolves to that Title, whatever Name, DisplayName, Properties and Arn hold.
C4_TitleUnlessResourceName ==
    (HasReturned("_get_resource_name") /\ Truthy(fcall.res.Title)
        /\ ~Truthy(fcall.res.ResourceName))
        => ret.s = fcall.res.Title

C4_Witness ==
    /\ HasReturned("_get_resource_name")
    /\ fcall.res.Title = V_t
    /\ ~Truthy(fcall.res.ResourceName)
    /\ fcall.res.Name = V_n
    /\ fcall.res.Properties = StrProps(J_name)
    /\ fcall.res.Arn = A_inst
    /\ ret.s = V_t

\* C5 as stated: without direct name fields and structured properties the name
\* is the part of the identifier after its last '/' whenever that part differs
\* from the identifier (also when it is empty), else the part after the last ':'.
C5_SlashPartEvenWhenEmpty ==
    (HasReturned("_get_resource_name") /\ NoDirectName(fcall.res)
        /\ NoStructuredProps(fcall.res) /\ Truthy(Identifier(fcall.res)))
        => LET id == Identifier(fcall.res)
               seg == AfterLast(id, "/")
           IN  ret.s = IF seg # id THEN seg ELSE AfterLast(id, ":")

\* C5, amended: the name is the part after the last '/' whenever that part is
\* non-empty and differs from the identifier, else the part after the last ':'.
C5_SlashPartWhenNonEmpty ==
    (HasReturned("_get_resource_name") /\ NoDirectName(fcall.res)
        /\ NoStructuredProps(fcall.res) /\ Truthy(Identifier(fcall.res)))
        => LET id == Identifier(fcall.res)
               seg == AfterLast(id, "/")
           IN  ret.s = IF seg # << >> /\ seg # id THEN seg ELSE AfterLast(id, ":")

C5_Witness ==
    /\ HasReturned("_get_resource_name")
    /\ NoDirectName(fcall.res)
    /\ NoStructuredProps(fcall.res)
    /\ fcall.res.Arn = A_slash
    /\ ret.s = << "i", "/" >>

\* the printed line of row j of the table
RowLineOf(j) == ret.out[(IF fcall.title.k # "" THEN 1 ELSE 0) + 2 + j].s

\* the ARN cell of a printed row: what follows the fourth separator
ArnCell(line) == Tail(Split(line, "|")[5])

\* the shortened ARN of row j: its cell without the padding ljust added
ShortenedArn(j) == RStrip(ArnCell(RowLineOf(j)))

LongRows == {j \in 1..Len(fcall.rows) : Len(fcall.rows[j].ARN) > ArnCap}

\* text is a prefix and a suffix of arn, k characters each, joined by '...'
PrefixDotsSuffix(text, arn, k) ==
    /\ Len(text) = 2 * k + 3
    /\ SubSeq(text, 1, k) = SubSeq(arn, 1, k)
    /\ SubSeq(text, k + 1, k + 3) = S_dots
    /\ SubSeq(text, k + 4, 2 * k + 3) = SubSeq(arn, Len(arn) - k + 1, Len(arn))

\* C3 as stated: an ARN longer than the 120-character cap is rendered as an
\* equal-length prefix and suffix joined by '...', of total length the cap.
C3_ShortenedLengthIsCap ==
    HasReturned("_print_resources_table")
        => \A j \in LongRows :
               /\ PrefixDotsSuffix(ShortenedArn(j), fcall.rows[j].ARN, (ArnCap - 3) \div 2)
               /\ Len(ShortenedArn(j)) = ArnCap

\* C3, amended: it is rendered as the first and the last keep = (120 - 3) // 2 = 58
\* characters joined by '...', 119 characters in all (one less than the cap),
\* and padded with one space to the column width of 120.
C3_ShortenedLengthIsCapLessOne ==
    HasReturned("_print_resources_table")
        => \A j \in LongRows :
               /\ PrefixDotsSuffix(ShortenedArn(j), fcall.rows[j].ARN, (ArnCap - 3) \div 2)
               /\ Len(ShortenedArn(j)) = ArnCap - 1
               /\ Len(ArnCell(RowLineOf(j))) = ArnCap

C3_Witness ==
    /\ HasReturned("_print_resources_table")
    /\ \E j \in LongRows : Len(fcall.rows[j].ARN) = 200 /\ Len(ShortenedArn(j)) = 119

-----------------------------------------------------------------------------
(* Properties of the collectors (specification Spec) *)

RECURSIVE SumValues(_)
SumValues(map) ==
    IF DOMAIN map = {} THEN 0
    ELSE LET k == CHOOSE x \in DOMAIN map : TRUE
         IN  map[k] + SumValues([x \in DOMAIN map \ {k} |-> map[x]])

InGetAllLoop == pc \in {"ga_fetch", "ga_record", "ga_finish"}

InSearchLoop == pc \in {"sb_fetch", "sb_record", "sb_finish"}

\* a collector has returned to the entry point and no other call has begun
AfterReturn(fn) ==
    /\ pc \in {"main_summary", "prompt_service", "done"}
    /\ result.fn = fn
    /\ calls # << >>

\* the call that returned caught no exception
Succeeded == calls # << >> /\ Last(calls).caught = ""

\* the records the loop body has been run on
Processed == SubSeq(arrived, 1, Len(arrived) - Len(page))

\* The region of a raw record as the specification derives it: the Region
\* field if non-empty, else the text between the third and the fourth colon of
\* an Arn that starts with 'arn:' and holds at least four colons, else empty.
ColonsOf(s) == {i \in 1..Len(s) : s[i] = ":"}

NthColon(s, n) ==
    CHOOSE i \in ColonsOf(s) : Cardinality({j \in ColonsOf(s) : j <= i}) = n

DerivedRegion(raw) ==
    LET arn == IF raw.Arn = None THEN << >> ELSE raw.Arn
    IN  IF raw.Region # None /\ raw.Region # << >> THEN raw.Region
        ELSE IF Len(arn) < 4 \/ SubSeq(arn, 1, 4) # S_arn_prefix
                \/ Cardinality(ColonsOf(arn)) < 4
        THEN << >>
        ELSE SubSeq(arn, NthColon(arn, 3) + 1, NthColon(arn, 4) - 1)

Matching(raws) == SelectSeq(raws, LAMBDA r : DerivedRegion(r) = region)

\* C1: in get_all_services_using_resource_explorer the values of the services
\* map sum to the length of the resources list after every processed record,
\* and in the returned dict they also equal total_resources.
C1_CountsSumToResources ==
    /\ InGetAllLoop => SumValues(services) = Len(resources)
    /\ (AfterReturn("get_all") /\ result.present)
           => /\ SumValues(result.services) = Len(result.resources)
              /\ result.total_resources = Len(result.resources)

C1_Witness ==
    /\ AfterReturn("get_all")
    /\ result.present
    /\ Len(result.resources) = 2
    /\ Cardinality(DOMAIN result.services) = 1

\* C2: every record either collector holds or returns has Region equal to the
\* requested region, and the records kept (and, in the full collection, counted)
\* are as many as the delivered records whose derived region is that region:
\* a record with another derived region is neither listed nor counted.
C2_OnlyRequestedRegion ==
    /\ (InGetAllLoop \/ InSearchLoop)
           => /\ \A i \in 1..Len(resources) : resources[i].Region = region
              /\ Len(resources) = Len(Matching(Processed))
    /\ InGetAllLoop => SumValues(services) = Len(Matching(Processed))
    /\ (AfterReturn("get_all") \/ AfterReturn("search"))
           => /\ \A i \in 1..Len(result.resources) : result.resources[i].Region = region
              /\ Succeeded => Len(result.resources) = Len(Matching(arrived))
              /\ (Succeeded /\ result.fn = "get_all")
                     => SumValues(result.services) = Len(Matching(arrived))

C2_Witness ==
    /\ AfterReturn("search")
    /\ Succeeded
    /\ arrived = << Raw1, Raw4 >>
    /\ region = R_e1
    /\ Len(result.resources) = 1
    /\ result.resources[1].Region = R_e1

\* what identifies a record in a returned list: its ARN and Service fields
KeyOfCollected(rs) == [i \in 1..Len(rs) |-> << rs[i].ARN, rs[i].Service >>]

KeyOfRaw(raws) ==
    [i \in 1..Len(raws) |->
        << IF raws[i].Arn = None THEN << >> ELSE raws[i].Arn,
           IF raws[i].Service = None THEN << >> ELSE raws[i].Service >>]

\* C10: a collector that returns without a caught exception has consumed every
\* page, and its list holds exactly the delivered records whose derived region
\* is the requested one, each once, in arrival order.
C10_ArrivalOrderSubsequence ==
    ((AfterReturn("get_all") \/ AfterReturn("search")) /\ Succeeded)
        => /\ ~next_token
           /\ page = << >>
           /\ KeyOfCollected(result.resources) = KeyOfRaw(Matching(arrived))

C10_Witness ==
    /\ AfterReturn("get_all")
    /\ Succeeded
    /\ pages_fetched = 2
    /\ arrived = << Raw3, Raw2 >>
    /\ region = R_w2
    /\ Len(result.resources) = 2

TableKinds ==
    {"text", "Total resources", "Resources in region", "Resources for service",
     "service count", "Total unique services found", "Found resources for service"}

PrintedKinds == {stdout[i].k : i \in 1..Len(stdout)}

\* C9: a search that fails, before or after pages were processed, returns None
\* from the full collection and [] from the scoped search and prints no table;
\* a full collection that succeeds and keeps nothing returns a dict with an
\* empty list and empty map; the entry point prints the grand total exactly
\* when the returned value is a dict.
C9_FailureVersusEmpty ==
    /\ (AfterReturn("get_all") /\ ~Succeeded)
           => /\ ~result.present
              /\ result.resources = << >>
              /\ PrintedKinds \cap TableKinds = {}
    /\ (AfterReturn("search") /\ ~Succeeded)
           => /\ result.resources = << >>
              /\ PrintedKinds \cap TableKinds = {}
    /\ (AfterReturn("get_all") /\ Succeeded)
           => /\ result.present
              /\ Matching(arrived) = << >>
                     => result.resources = << >> /\ DOMAIN result.services = {}
    /\ (AfterReturn("get_all") /\ pc = "prompt_service")
           => ("Summary" \in PrintedKinds <=> Succeeded)

C9_Witness ==
    /\ AfterReturn("get_all")
    /\ ~Succeeded
    /\ pc = "prompt_service"
    /\ pages_fetched = 1
    /\ Matching(arrived) # << >>

C9_WitnessEmpty ==
    /\ AfterReturn("get_all")
    /\ Succeeded
    /\ pc = "prompt_service"
    /\ arrived # << >>
    /\ result.resources = << >>
    /\ "Summary" \in PrintedKinds

-----------------------------------------------------------------------------
(* Properties of the entry point and the region prompt (specification Spec) *)

InValidator == pc \in {"start", "prompt_region", "ask_retry", "list_indexes"}

Terminated == pc \in {"done", "crashed"}

\* the lines typed at the service prompt, as the program reads them
ServiceLinesRead ==
    LET typed == SelectSeq(io, LAMBDA e : e.q = "service")
    IN  [i \in 1..Len(typed) |-> Strip(typed[i].raw)]

SearchCalls == SelectSeq(calls, LAMBDA c : c.fn = "search")

\* C6: a collector is called only with a region of the fetched list and a
\* non-empty index list; without a region or without an index the program ends
\* with exit status 1 and no collector call; exit status 0 arises exactly when
\* an empty line is read at the service prompt, and then every non-empty line
\* read there has had its one scoped search.
C6_SearchOnlyAfterRegionAndIndex ==
    /\ (calls # << >> \/ pc \in {"get_all", "search"} \/ InGetAllLoop \/ InSearchLoop)
           => /\ InSeq(region, valid_regions)
              /\ indexes # << >>
    /\ (~InValidator /\ pc # "main_check"
            /\ (valid_regions = << >> \/ region = None \/ indexes = << >>))
           => /\ Terminated
              /\ exit_code = 1
              /\ calls = << >>
    /\ exit_code = 0
           <=> (\E i \in 1..Len(ServiceLinesRead) : ServiceLinesRead[i] = << >>)
    /\ exit_code = 0
           => /\ pc = "done"
              /\ Last(ServiceLinesRead) = << >>
              /\ Len(SearchCalls) = Len(ServiceLinesRead) - 1
              /\ Len(calls) = Len(SearchCalls) + 1
              /\ calls[1].fn = "get_all"
    /\ exit_code \in {-1, 0, 1}
    /\ Terminated <=> exit_code # -1

C6_Witness ==
    /\ pc = "done"
    /\ exit_code = 0
    /\ Len(SearchCalls) = 1
    /\ SearchCalls[1].query = S_service_colon \o V_s3
    /\ Len(indexes) = 2

\* C7: no exception raised by a remote call leaves list_resource_explorer_indexes,
\* get_all_services_using_resource_explorer or search_by_service.
C7_NoExceptionEscapes == uncaught = ""

\* what the program reads from entry i of the prompt history
Read(i) == Strip(io[i].raw)

FollowedBy(i, q, at) ==
    \/ i = Len(io) /\ pc = at
    \/ i < Len(io) /\ io[i + 1].q = q

IndexLookupKinds ==
    {"Found index", "No Resource Explorer index found in region",
     "Resource Explorer not configured in this region", "Error checking indexes"}

\* C8: the prompt loop returns a region of the fetched list or no region.  The
\* lines are taken as the program reads them (trimmed; the retry answer also
\* lower-cased).  A listed region typed first is accepted with no further
\* prompt; an empty line leads to the region prompt again; a line not in the
\* list leads to the retry question, whose answer ends the loop with no region,
\* no index and no index lookup iff it is not 'y'.
C8_RegionPromptLoop ==
    /\ ~(pc \in {"start", "prompt_region", "ask_retry"})
           => (region = None \/ InSeq(region, valid_regions))
    /\ (io # << >> /\ io[1].q = "region" /\ InSeq(Read(1), valid_regions))
           => /\ Len(io) = 1
              /\ region = Read(1)
              /\ pc \notin {"prompt_region", "ask_retry"}
    /\ \A i \in 1..Len(io) :
           /\ (io[i].q = "region" /\ Read(i) = << >>)
                  => FollowedBy(i, "region", "prompt_region")
           /\ (io[i].q = "region" /\ Read(i) # << >> /\ ~InSeq(Read(i), valid_regions))
                  => FollowedBy(i, "retry", "ask_retry")
           /\ (io[i].q = "retry" /\ Lower(Read(i)) = S_y)
                  => FollowedBy(i, "region", "prompt_region")
           /\ (io[i].q = "retry" /\ Lower(Read(i)) # S_y)
                  => /\ i = Len(io)
                     /\ pc \in {"main_check", "done"}
                     /\ region = None
                     /\ indexes = << >>
                     /\ PrintedKinds \cap IndexLookupKinds = {}
    /\ (pc \in {"main_check", "done"} /\ region = None /\ valid_regions # << >>)
           => /\ io # << >>
              /\ Last(io).q = "retry"
              /\ Lower(Read(Len(io))) # S_y

C8_Witness ==
    /\ pc = "main_check"
    /\ Len(io) = 3
    /\ io[1] = Input("region", << "x", "x" >>)
    /\ io[2] = Input("retry", << "y" >>)
    /\ io[3] = Input("region", R_w2)
    /\ region = R_w2

=============================================================================
